---- MODULE Spec2Model ----
(***************************************************************************)
(* One-way folder synchronizer (src/os/FileSync/main.py).                  *)
(*                                                                         *)
(* The file system is one function from absolute paths to entries; the     *)
(* source tree lives under source_path and the replica under replica_path. *)
(* Library calls (Path.mkdir, shutil.copy2, shutil.rmtree, os.walk) are    *)
(* modelled by what CPython 3.11 does; an I/O fault is a nondeterministic  *)
(* outcome of the operation that performs the I/O.                         *)
(***************************************************************************)
EXTENDS Integers, Sequences, FiniteSets, TLC

\* ------------------------------------------------------------------ bounds
\* File contents are 0..MaxContent; 0 is the empty file.
MaxContent == 2
\* Modification times of the files found in the replica are 0..MaxMtime.
MaxMtime == 1
\* The driver's amount argument ranges over -1..MaxCount.
MaxCount == 2
\* The driver's interval argument ranges over -1..MaxInterval.
MaxInterval == 1
\* At most MaxFaults steps of a run are hit by injected I/O faults.
MaxFaults == 1

Contents == 0..MaxContent
Mtimes == 0..MaxMtime

\* Byte length of a content: 0 is empty, 1 and 2 are distinct contents of one
\* length, 3 and 4 of the next, ...
Size(c) == (c + 1) \div 2

\* ------------------------------------------------------------------- paths
source_path == <<"source">>
replica_path == <<"replica">>

\* Relative paths an initial tree may populate.
TreePaths == {<<"a">>, <<"a", "a">>, <<"b">>}
\* shutil.copy2 onto a directory writes inside it: one more level is needed.
RelPaths == TreePaths \cup {<<"a", "a", "a">>}
Roots == {source_path, replica_path}
AbsPaths == {r \o p : r \in Roots, p \in RelPaths \cup {<<>>}}

Parent(p) == SubSeq(p, 1, Len(p) - 1)
Name(p) == p[Len(p)]
IsPrefix(p, q) == Len(p) <= Len(q) /\ SubSeq(q, 1, Len(p)) = p
IsUnder(root, p) == IsPrefix(root, p)
RelativeTo(p, root) == SubSeq(p, Len(root) + 1, Len(p))

\* ----------------------------------------------------------------- entries
NoEntry == [kind |-> "none", content |-> 0, mtime |-> 0]
DirEntry == [kind |-> "dir", content |-> 0, mtime |-> 0]
FileEntry(c, t) == [kind |-> "file", content |-> c, mtime |-> t]

Exists(f, p) == p \in DOMAIN f /\ f[p].kind # "none"
IsDir(f, p) == p \in DOMAIN f /\ f[p].kind = "dir"
IsFile(f, p) == p \in DOMAIN f /\ f[p].kind = "file"

\* Every entry below a root sits in a directory.
WellFormed(f) ==
    \A p \in DOMAIN f : (Exists(f, p) /\ Len(p) > 1) => IsDir(f, Parent(p))

\* --------------------------------------------------------- library calls
\* Path.mkdir(parents=True, exist_ok=True): an existing directory is accepted,
\* a file in the way (at p or above it) raises, missing ancestors are created.
RECURSIVE mkdir(_, _)
mkdir(f, p) ==
    IF IsDir(f, p) THEN [ok |-> TRUE, fs |-> f]
    ELSE IF Exists(f, p) THEN [ok |-> FALSE, fs |-> f]
    ELSE IF Len(p) = 1 THEN [ok |-> TRUE, fs |-> [f EXCEPT ![p] = DirEntry]]
    ELSE LET up == mkdir(f, Parent(p))
         IN  IF up.ok THEN [ok |-> TRUE, fs |-> [up.fs EXCEPT ![p] = DirEntry]]
             ELSE [ok |-> FALSE, fs |-> f]

\* Where shutil.copy2(src, dst) writes: inside dst when dst is a directory.
CopyTarget(f, src, dst) == IF IsDir(f, dst) THEN dst \o <<Name(src)>> ELSE dst

\* shutil.copy2(src, dst): content and modification time of src are written to
\* the target; a directory at the target, or no directory above it, raises.
copy2(f, src, dst) ==
    LET target == CopyTarget(f, src, dst)
    IN  IF IsFile(f, src) /\ ~IsDir(f, target) /\ IsDir(f, Parent(target))
        THEN [ok |-> TRUE,
              fs |-> [f EXCEPT ![target] = FileEntry(f[src].content, f[src].mtime)]]
        ELSE [ok |-> FALSE, fs |-> f]

\* A copy interrupted after the target was opened for writing: the target is
\* left truncated, stamped with the time of the write.
Truncated(f, src, dst) ==
    LET target == CopyTarget(f, src, dst)
    IN  IF IsFile(f, src) /\ ~IsDir(f, target) /\ IsDir(f, Parent(target))
        THEN [f EXCEPT ![target] = FileEntry(0, MaxMtime)]
        ELSE f

\* shutil.rmtree(p) / Path.unlink(p): p and everything beneath it is gone.
rmtree(f, p) == [q \in DOMAIN f |-> IF IsPrefix(p, q) THEN NoEntry ELSE f[q]]

\* os.walk(root) with the default onerror=None: a directory whose listing
\* fails (it is in unl) is silently skipped, so nothing beneath it is yielded;
\* the directory itself was yielded by its parent's listing.
walk(f, root, unl) ==
    {p \in DOMAIN f :
        /\ IsUnder(root, p) /\ p # root /\ Exists(f, p)
        /\ \A n \in Len(root)..(Len(p) - 1) :
              LET q == SubSeq(p, 1, n) IN IsDir(f, q) /\ q \notin unl}

\* The directories of the tree under root: the listings a walk performs.
DirsUnder(f, root) == {p \in DOMAIN f : IsUnder(root, p) /\ IsDir(f, p)}

\* ------------------------------------------------------------ log records
Rec(k, p) == [kind |-> k, path |-> p]
Mutations == {"COPIED", "CREATED DIRECTORY", "REMOVED FILE", "REMOVED DIRECTORY"}
Errors == {"Error reading file", "Error scanning directory", "Error copying",
           "Error removing", "Error creating directory",
           "Source folder does not exist"}
Kinds(l) == {l[i].kind : i \in DOMAIN l}

\* -------------------------------------------------------- FolderSynchronizer
\* hashlib digests: distinct contents have distinct digests, none of them "".
Digest(c) == c + 1
\* The value calculate_file_hash returns on IOError: the empty string.
EmptyDigest == 0

\* calculate_file_hash(file_path): the digest, or "" with an error record when
\* the file cannot be read (a read fault, or the path is a directory).
calculate_file_hash(f, p, fault) ==
    IF fault \/ ~IsFile(f, p)
    THEN [value |-> EmptyDigest, log |-> <<Rec("Error reading file", p)>>]
    ELSE [value |-> Digest(f[p].content), log |-> <<>>]

\* get_directory_structure(path): the relative paths a walk of path yields.
get_directory_structure(f, path, unl) ==
    IF ~Exists(f, path) THEN {}
    ELSE {RelativeTo(p, path) : p \in walk(f, path, unl)}

\* st_size: a file's byte length; a directory's is whatever the platform says.
StSize(f, p, dirsize) == IF IsDir(f, p) THEN dirsize ELSE Size(f[p].content)

\* files_are_identical as it would be if it also compared modification times.
files_are_identical_by_mtime(f, s, r, flt) ==
    IF ~(Exists(f, s) /\ Exists(f, r))
    THEN [raised |-> FALSE, value |-> FALSE, log |-> <<>>]
    ELSE IF flt.stat
    THEN [raised |-> TRUE, value |-> FALSE, log |-> <<>>]
    ELSE IF StSize(f, s, flt.dirsize) # StSize(f, r, flt.dirsize)
            \/ f[s].mtime # f[r].mtime
    THEN [raised |-> FALSE, value |-> FALSE, log |-> <<>>]
    ELSE LET hs == calculate_file_hash(f, s, flt.hash_src)
             hr == calculate_file_hash(f, r, flt.hash_rep)
         IN  [raised |-> FALSE, value |-> (hs.value = hr.value),
              log |-> hs.log \o hr.log]

\* files_are_identical(source_file, replica_file).  flt.stat: a stat() call
\* raises; flt.hash_src, flt.hash_rep: reading the file fails.
files_are_identical(f, s, r, flt) ==
    IF ~(Exists(f, s) /\ Exists(f, r))
    THEN [raised |-> FALSE, value |-> FALSE, log |-> <<>>]
    ELSE IF flt.stat
    THEN [raised |-> TRUE, value |-> FALSE, log |-> <<>>]
    ELSE IF StSize(f, s, flt.dirsize) # StSize(f, r, flt.dirsize)
    THEN [raised |-> FALSE, value |-> FALSE, log |-> <<>>]
    ELSE LET hs == calculate_file_hash(f, s, flt.hash_src)
             hr == calculate_file_hash(f, r, flt.hash_rep)
         IN  [raised |-> FALSE, value |-> (hs.value = hr.value),
              log |-> hs.log \o hr.log]

\* copy_file as it would be with the two arguments of copy2 exchanged.
copy_file_reversed(f, s, r, flt) ==
    LET up == mkdir(f, Parent(r))
        cp == copy2(up.fs, r, s)
    IN  IF flt.mkdir \/ ~up.ok
        THEN [fs |-> f, log |-> <<Rec("Error copying", r)>>]
        ELSE IF flt.copy # "ok" \/ ~cp.ok
        THEN [fs |-> up.fs, log |-> <<Rec("Error copying", r)>>]
        ELSE [fs |-> cp.fs, log |-> <<Rec("COPIED", r)>>]

\* copy_file(source_file, replica_file).  flt.mkdir: creating the parent
\* chain fails; flt.copy: "ok", "fail" (nothing written) or "partial".
copy_file(f, s, r, flt) ==
    LET up == mkdir(f, Parent(r))
        cp == copy2(up.fs, s, r)
    IN  IF flt.mkdir \/ ~up.ok
        THEN [fs |-> f, log |-> <<Rec("Error copying", r)>>]
        ELSE IF flt.copy = "fail" \/ ~cp.ok
        THEN [fs |-> up.fs, log |-> <<Rec("Error copying", r)>>]
        ELSE IF flt.copy = "partial"
        THEN [fs |-> Truncated(up.fs, s, r), log |-> <<Rec("Error copying", r)>>]
        ELSE [fs |-> cp.fs, log |-> <<Rec("COPIED", r)>>]

\* remove_path(path): nothing at all happens when path is neither a file nor
\* a directory any more.
remove_path(f, p, fault) ==
    IF IsFile(f, p)
    THEN IF fault THEN [fs |-> f, log |-> <<Rec("Error removing", p)>>]
         ELSE [fs |-> rmtree(f, p), log |-> <<Rec("REMOVED FILE", p)>>]
    ELSE IF IsDir(f, p)
    THEN IF fault THEN [fs |-> f, log |-> <<Rec("Error removing", p)>>]
         ELSE [fs |-> rmtree(f, p), log |-> <<Rec("REMOVED DIRECTORY", p)>>]
    ELSE [fs |-> f, log |-> <<>>]

\* create_directory(dir_path).
create_directory(f, p, fault) ==
    LET mk == mkdir(f, p)
    IN  IF fault \/ ~mk.ok
        THEN [fs |-> f, log |-> <<Rec("Error creating directory", p)>>]
        ELSE [fs |-> mk.fs, log |-> <<Rec("CREATED DIRECTORY", p)>>]

\* The outcomes the I/O of one additive step may have: every operation works
\* (a directory's st_size is still the platform's), or any of them fails.
NoFaults ==
    [stat : {FALSE}, hash_src : {FALSE}, hash_rep : {FALSE}, mkdir : {FALSE},
     copy : {"ok"}, dirsize : {Size(c) : c \in Contents}]
\* flt with its injected faults taken out.
Clean(flt) ==
    [stat |-> FALSE, hash_src |-> FALSE, hash_rep |-> FALSE, mkdir |-> FALSE,
     copy |-> "ok", dirsize |-> flt.dirsize]
StepFaults ==
    [stat : BOOLEAN, hash_src : BOOLEAN, hash_rep : BOOLEAN, mkdir : BOOLEAN,
     copy : {"ok", "fail", "partial"}, dirsize : {Size(c) : c \in Contents}]

\* One iteration of synchronize's loop over source_structure (lines 157-168).
ProcessSourceItem(f, rel, flt) ==
    LET source_item == source_path \o rel
        replica_item == replica_path \o rel
        same == files_are_identical(f, source_item, replica_item, flt)
        cp == copy_file(f, source_item, replica_item, flt)
        mk == create_directory(f, replica_item, flt.mkdir)
    IN  IF IsDir(f, source_item)
        THEN IF ~Exists(f, replica_item)
             THEN [fs |-> mk.fs, log |-> mk.log, raised |-> FALSE]
             ELSE [fs |-> f, log |-> <<>>, raised |-> FALSE]
        ELSE IF ~Exists(f, replica_item)
        THEN [fs |-> cp.fs, log |-> cp.log, raised |-> FALSE]
        ELSE IF same.raised
        THEN [fs |-> f, log |-> <<>>, raised |-> TRUE]
        ELSE IF ~same.value
        THEN [fs |-> cp.fs, log |-> same.log \o cp.log, raised |-> FALSE]
        ELSE [fs |-> f, log |-> same.log, raised |-> FALSE]

\* ProcessReplicaItem as it would be without the test of line 172.
ProcessReplicaItemAlways(f, rel, srcset, fault) ==
    remove_path(f, replica_path \o rel, fault)

\* One iteration of synchronize's loop over replica_structure (lines 171-174).
ProcessReplicaItem(f, rel, srcset, fault) ==
    IF rel \notin srcset
    THEN remove_path(f, replica_path \o rel, fault)
    ELSE [fs |-> f, log |-> <<>>]

\* The file systems the loop over source_structure may leave when it has the
\* items of todo still to process and no I/O fails, in whatever order the
\* set is iterated.
RECURSIVE AdditivePass(_, _)
AdditivePass(f, todo) ==
    IF todo = {} THEN {f}
    ELSE UNION {AdditivePass(ProcessSourceItem(f, rel, flt).fs, todo \ {rel}) :
                    rel \in todo, flt \in NoFaults}

\* The same for the loop over replica_structure.
RECURSIVE SubtractivePass(_, _, _)
SubtractivePass(f, todo, srcset) ==
    IF todo = {} THEN {f}
    ELSE UNION {SubtractivePass(ProcessReplicaItem(f, rel, srcset, FALSE).fs,
                                todo \ {rel}, srcset) : rel \in todo}

\* The file systems synchronize() may leave when it starts on f, finds the
\* source root and no I/O fails (lines 150-174).
synchronize(f) ==
    LET g == mkdir(f, replica_path).fs
        srcset == get_directory_structure(g, source_path, {})
        repset == get_directory_structure(g, replica_path, {})
    IN  UNION {SubtractivePass(h, repset, srcset) : h \in AdditivePass(g, srcset)}

\* ------------------------------------------------------------------- state
VARIABLES
    fs,                 \* the file system: AbsPaths -> entry
    srcOnline,          \* whether source_path exists (its volume is attached)
    interval, amount,   \* the driver's arguments
    pc,                 \* "parse", "construct", "loop", "sync", "sleep", "done"
    outcome,            \* "running", "rejected", "finished", "crashed"
    constructed,        \* FolderSynchronizer built: log directory and file made
    sync_count,         \* main's loop variable
    calls,              \* synchronize() invocations so far
    sleeps,             \* time.sleep() invocations so far
    source_structure,   \* synchronize's snapshot of the source
    replica_structure,  \* synchronize's snapshot of the replica
    todoAdd,            \* members of source_structure still to process
    todoSub,            \* members of replica_structure still to process
    log,                \* records logged since the latest synchronize() began
    ioFailed,           \* some I/O operation of the current pass failed
    scanFailed,         \* the directories whose listing failed in this pass
    fsAtStart,          \* the file system when the current pass began
    passOnline,         \* the current pass found the source root
    prevClean,          \* the pass before it found the source and had no failure
    prevOnline,         \* the pass before it found the source root
    budget              \* steps of this run that injected I/O faults may still hit

config == <<interval, amount>>
driver == <<pc, outcome, sync_count>>
snapshots == <<source_structure, replica_structure>>
history == <<fsAtStart, passOnline, prevClean, prevOnline>>

vars == <<fs, srcOnline, config, driver, constructed, calls, sleeps, snapshots,
          todoAdd, todoSub, log, ioFailed, scanFailed, history, budget>>

\* ---------------------------------------------------------- initial states
\* The files of the given contents, last modified at time t.
FilesAt(cs, t) == {FileEntry(c, t) : c \in cs}

\* The trees over TreePaths: "a" is anything, "a/a" anything inside a
\* directory "a", "b" a file or absent.
Trees(files) ==
    {t \in [TreePaths -> files \cup {NoEntry, DirEntry}] :
        /\ t[<<"a">>] # DirEntry => t[<<"a", "a">>] = NoEntry
        /\ t[<<"b">>] # DirEntry}

\* The tree with nothing in it.
EmptyTree == [p \in TreePaths |-> NoEntry]

\* The file system holding tree s under source_path and, when the replica
\* root exists, tree r under replica_path.
MakeFs(s, r, replicaRoot) ==
    [p \in AbsPaths |->
        LET rel == RelativeTo(p, source_path)
        IN  IF IsUnder(source_path, p)
            THEN IF rel = <<>> THEN DirEntry
                 ELSE IF rel \in TreePaths THEN s[rel] ELSE NoEntry
            ELSE IF ~replicaRoot THEN NoEntry
            ELSE IF rel = <<>> THEN DirEntry
            ELSE IF rel \in TreePaths THEN r[rel] ELSE NoEntry]

\* The initial states over the given source trees, replica trees, driver
\* arguments and fault budget.
InitOver(srcTrees, repTrees, intervals, amounts, faults) ==
    /\ \E s \in srcTrees, r \in repTrees \cup {EmptyTree}, root \in BOOLEAN :
          /\ (~root => r = EmptyTree)
          /\ fs = MakeFs(s, r, root)
    /\ srcOnline = TRUE
    /\ interval \in intervals
    /\ amount \in amounts
    /\ budget = faults
    /\ pc = "parse"
    /\ outcome = "running"
    /\ constructed = FALSE
    /\ sync_count = 0
    /\ calls = 0
    /\ sleeps = 0
    /\ source_structure = {}
    /\ replica_structure = {}
    /\ todoAdd = {}
    /\ todoSub = {}
    /\ log = <<>>
    /\ ioFailed = FALSE
    /\ scanFailed = {}
    /\ fsAtStart = fs
    /\ passOnline = FALSE
    /\ prevClean = FALSE
    /\ prevOnline = FALSE

\* Source files carry modification time 0; the files of one replica tree were
\* all written at one time t.
SourceTrees(cs) == Trees(FilesAt(cs, 0))
ReplicaTrees(cs) == UNION {Trees(FilesAt(cs, t)) : t \in Mtimes}

\* Every tree, the longest schedule, no injected fault.
Init ==
    InitOver(SourceTrees(Contents), ReplicaTrees(Contents), {MaxInterval},
             {MaxCount}, 0)

\* Trees of fewer contents whose replica files are newer than the source's,
\* the longest schedule, I/O faults injected.
InitFaults ==
    InitOver(SourceTrees({1}), Trees(FilesAt({1, 2}, MaxMtime)), {MaxInterval},
             {MaxCount}, MaxFaults)

\* Every schedule, accepted or not, over a replica that starts empty or absent;
\* I/O faults injected.
InitDriver ==
    InitOver(SourceTrees({1}), {EmptyTree}, -1..MaxInterval, -1..MaxCount,
             MaxFaults)

\* ------------------------------------------------------------------ driver
\* The check as it would be with "and" for "or".
RejectsBoth(i, n) == i < 0 /\ n < 0

\* parse_arguments' check of the parsed values (line 193).
Rejects(i, n) == i < 0 \/ n < 0

\* parse_arguments and main's test of its result (lines 206-209).
parse_arguments ==
    /\ pc = "parse"
    /\ IF Rejects(interval, amount)
       THEN pc' = "done" /\ outcome' = "rejected"
       ELSE pc' = "construct" /\ outcome' = outcome
    /\ UNCHANGED <<fs, srcOnline, config, sync_count, constructed, calls, sleeps,
                   snapshots, todoAdd, todoSub, log, ioFailed, scanFailed,
                   history, budget>>

\* FolderSynchronizer(...) and the start-up records (lines 212-220).
Construct ==
    /\ pc = "construct"
    /\ constructed' = TRUE
    /\ pc' = "loop"
    /\ UNCHANGED <<fs, srcOnline, config, outcome, sync_count, calls, sleeps,
                   snapshots, todoAdd, todoSub, log, ioFailed, scanFailed,
                   history, budget>>

\* main's test before time.sleep (line 228).
SleepsAfter(k, n, i) == k < n - 1 /\ i > 0

\* AfterPass as it would be if main returned after a pass instead of going on.
AfterPassReturns ==
    pc' = "done" /\ outcome' = "finished" /\ sync_count' = sync_count

\* Where main goes when synchronize() has returned (lines 227-230).
AfterPass ==
    /\ outcome' = outcome
    /\ IF SleepsAfter(sync_count, amount, interval)
       THEN pc' = "sleep" /\ sync_count' = sync_count
       ELSE pc' = "loop" /\ sync_count' = sync_count + 1

\* time.sleep(interval), then the next iteration of main's loop.
Sleep ==
    /\ pc = "sleep"
    /\ sleeps' = sleeps + 1
    /\ sync_count' = sync_count + 1
    /\ pc' = "loop"
    /\ UNCHANGED <<fs, srcOnline, config, outcome, constructed, calls, snapshots,
                   todoAdd, todoSub, log, ioFailed, scanFailed, history, budget>>

\* The loop is exhausted: the closing record, and main returns (line 232).
Finish ==
    /\ pc = "loop"
    /\ sync_count >= amount
    /\ pc' = "done"
    /\ outcome' = "finished"
    /\ UNCHANGED <<fs, srcOnline, config, sync_count, constructed, calls, sleeps,
                   snapshots, todoAdd, todoSub, log, ioFailed, scanFailed,
                   history, budget>>

\* An exception leaves synchronize(): main's handler prints it and returns
\* (lines 234-236).
Crash == pc' = "done" /\ outcome' = "crashed" /\ sync_count' = sync_count

\* ------------------------------------------------------------- synchronize
HasError(l) == Kinds(l) \cap Errors # {}

\* The pass just over ran to its final record with the source there and
\* nothing failing.
CleanPass ==
    /\ calls >= 1 /\ passOnline /\ ~ioFailed
    /\ Len(log) > 0 /\ log[Len(log)].kind = "Synchronization completed"

\* The sets of directories whose listing may fail in the two walks of one
\* pass: each failing listing uses up one unit of the budget.
Unlistable(f) ==
    {u \in SUBSET (DirsUnder(f, source_path) \cup DirsUnder(f, replica_path)) :
        Cardinality(u) <= budget}

\* synchronize() up to its loops (lines 142-154): the source check, the
\* replica root, the two snapshots.  rootFault: creating the replica root
\* fails; unl: the directories whose listing fails.
SyncBegin ==
    /\ pc = "loop"
    /\ sync_count < amount
    /\ calls' = calls + 1
    /\ fsAtStart' = fs
    /\ prevClean' = CleanPass
    /\ prevOnline' = passOnline
    /\ passOnline' = srcOnline
    /\ IF ~srcOnline
       THEN /\ log' = <<Rec("Starting synchronization", <<>>),
                        Rec("Source folder does not exist", source_path)>>
            /\ ioFailed' = FALSE
            /\ scanFailed' = {}
            /\ AfterPass
            /\ UNCHANGED <<fs, snapshots, todoAdd, todoSub, budget>>
       ELSE \E rootFault \in (IF budget > 0 THEN BOOLEAN ELSE {FALSE}) :
            LET mk == mkdir(fs, replica_path)
            IN  IF (rootFault /\ ~IsDir(fs, replica_path)) \/ ~mk.ok
                THEN /\ log' = <<Rec("Starting synchronization", <<>>)>>
                     /\ ioFailed' = TRUE
                     /\ scanFailed' = {}
                     /\ Crash
                     /\ budget' = IF mk.ok THEN budget - 1 ELSE budget
                     /\ UNCHANGED <<fs, snapshots, todoAdd, todoSub>>
                ELSE \E unl \in Unlistable(mk.fs) :
                     /\ fs' = mk.fs
                     /\ source_structure' =
                            get_directory_structure(mk.fs, source_path, unl)
                     /\ replica_structure' =
                            get_directory_structure(mk.fs, replica_path, unl)
                     /\ todoAdd' = source_structure'
                     /\ todoSub' = replica_structure'
                     /\ log' = <<Rec("Starting synchronization", <<>>)>>
                     /\ ioFailed' = (unl # {})
                     /\ scanFailed' = unl
                     /\ budget' = budget - Cardinality(unl)
                     /\ pc' = "sync"
                     /\ UNCHANGED <<outcome, sync_count>>
    /\ UNCHANGED <<srcOnline, config, constructed, sleeps>>

\* The outcomes the I/O of the step for rel may have: a directory's size is
\* read only when the replica entry is a directory.
StepOutcomes(rel) ==
    {flt \in (IF budget > 0 THEN StepFaults ELSE NoFaults) :
        IsDir(fs, replica_path \o rel) \/ flt.dirsize = 0}

\* One iteration of the loop over source_structure.  A step whose outcome the
\* injected faults change uses up one unit of the budget.
AddStep ==
    /\ pc = "sync"
    /\ \E rel \in todoAdd : \E flt \in StepOutcomes(rel) :
          LET r == ProcessSourceItem(fs, rel, flt)
              hit == r # ProcessSourceItem(fs, rel, Clean(flt))
          IN  /\ flt # Clean(flt) => hit
              /\ budget' = IF hit THEN budget - 1 ELSE budget
              /\ fs' = r.fs
              /\ log' = log \o r.log
              /\ ioFailed' = (ioFailed \/ r.raised \/ HasError(r.log))
              /\ todoAdd' = todoAdd \ {rel}
              /\ IF r.raised THEN Crash
                 ELSE UNCHANGED <<pc, outcome, sync_count>>
    /\ UNCHANGED <<srcOnline, config, constructed, calls, sleeps, snapshots,
                   todoSub, scanFailed, history>>

\* SubStep as it would be if the second loop did not wait for the first.
SubStepEarly ==
    /\ pc = "sync"
    /\ \E rel \in todoSub, fault \in (IF budget > 0 THEN BOOLEAN ELSE {FALSE}) :
          LET r == ProcessReplicaItem(fs, rel, source_structure, fault)
              hit == r # ProcessReplicaItem(fs, rel, source_structure, FALSE)
          IN  /\ fault => hit
              /\ budget' = IF hit THEN budget - 1 ELSE budget
              /\ fs' = r.fs
              /\ log' = log \o r.log
              /\ ioFailed' = (ioFailed \/ HasError(r.log))
              /\ todoSub' = todoSub \ {rel}
    /\ UNCHANGED <<srcOnline, config, driver, constructed, calls, sleeps,
                   snapshots, todoAdd, scanFailed, history>>

\* One iteration of the loop over replica_structure.
SubStep ==
    /\ pc = "sync"
    /\ todoAdd = {}
    /\ \E rel \in todoSub, fault \in (IF budget > 0 THEN BOOLEAN ELSE {FALSE}) :
          LET r == ProcessReplicaItem(fs, rel, source_structure, fault)
              hit == r # ProcessReplicaItem(fs, rel, source_structure, FALSE)
          IN  /\ fault => hit
              /\ budget' = IF hit THEN budget - 1 ELSE budget
              /\ fs' = r.fs
              /\ log' = log \o r.log
              /\ ioFailed' = (ioFailed \/ HasError(r.log))
              /\ todoSub' = todoSub \ {rel}
    /\ UNCHANGED <<srcOnline, config, driver, constructed, calls, sleeps,
                   snapshots, todoAdd, scanFailed, history>>

\* The final record of synchronize() (line 176), and back in main.
SyncEnd ==
    /\ pc = "sync"
    /\ todoAdd = {}
    /\ todoSub = {}
    /\ log' = Append(log, Rec("Synchronization completed", <<>>))
    /\ AfterPass
    /\ UNCHANGED <<fs, srcOnline, config, constructed, calls, sleeps, snapshots,
                   todoAdd, todoSub, ioFailed, scanFailed, history, budget>>

\* ------------------------------------------------------------- environment
\* Between two passes the source root disappears, or is back.
SourceToggle ==
    /\ pc = "loop"
    /\ sync_count < amount
    /\ srcOnline' = ~srcOnline
    /\ UNCHANGED <<fs, config, driver, constructed, calls, sleeps, snapshots,
                   todoAdd, todoSub, log, ioFailed, scanFailed, history, budget>>

Next ==
    \/ parse_arguments
    \/ Construct
    \/ SyncBegin
    \/ AddStep
    \/ SubStep
    \/ SyncEnd
    \/ Sleep
    \/ Finish
    \/ SourceToggle

Spec == Init /\ [][Next]_vars

SpecFaults == InitFaults /\ [][Next]_vars

SpecDriver == InitDriver /\ [][Next]_vars

\* ---------------------------------------------------------------- sanity
TypeOK ==
    /\ WellFormed(fs)
    /\ DOMAIN fs = AbsPaths
    /\ pc \in {"parse", "construct", "loop", "sync", "sleep", "done"}
    /\ budget \in 0..MaxFaults
    /\ todoAdd \subseteq source_structure
    /\ todoSub \subseteq replica_structure

\* A copy onto a directory always finds the path it writes in AbsPaths.
UniverseClosed ==
    \A rel \in RelPaths :
        (IsFile(fs, source_path \o rel) /\ IsDir(fs, replica_path \o rel))
            => (replica_path \o rel \o <<Name(rel)>>) \in AbsPaths

\* ------------------------------------------------------------- properties
SourceOf(f) == [rel \in RelPaths |-> f[source_path \o rel]]
ReplicaOf(f) == [rel \in RelPaths |-> f[replica_path \o rel]]

\* synchronize() found the source and has logged its final record.
PassCompleted ==
    /\ calls >= 1 /\ passOnline
    /\ Len(log) > 0 /\ log[Len(log)].kind = "Synchronization completed"

\* The replica entry at rel has the kind of the source entry and, for a file,
\* its content.
Matches(f, rel) ==
    LET s == f[source_path \o rel]
        r == f[replica_path \o rel]
    IN  s.kind = r.kind /\ (s.kind = "file" => s.content = r.content)

Converged(f) == \A rel \in RelPaths : Matches(f, rel)

\* copy_file was called on the replica path of rel during this pass.
CopyInvoked(rel) ==
    \E i \in DOMAIN log :
        /\ log[i].kind \in {"COPIED", "Error copying"}
        /\ log[i].path = replica_path \o rel

\* A digest of the source or the replica file of rel failed during this pass.
ReadFailed(rel) ==
    \E i \in DOMAIN log :
        /\ log[i].kind = "Error reading file"
        /\ log[i].path \in {source_path \o rel, replica_path \o rel}

\* When the pass began rel was a file on both sides, with the same content.
IdenticalAtStart(rel) ==
    /\ IsFile(fsAtStart, source_path \o rel)
    /\ IsFile(fsAtStart, replica_path \o rel)
    /\ fsAtStart[source_path \o rel].content
          = fsAtStart[replica_path \o rel].content

\* C1: after a synchronize() call in which no I/O operation failed, the
\* replica has the paths, the kinds and the file contents of the source,
\* whatever the replica held before.
C1_Convergence == (PassCompleted /\ ~ioFailed) => Converged(fs)

\* C2: a pass that finds the source root absent, or cannot list it, leaves
\* every entry of the replica tree as it was.
C2_DeletionSafety ==
    (calls >= 1 /\ (~passOnline \/ source_path \in scanFailed))
        => ReplicaOf(fs) = ReplicaOf(fsAtStart)

C4_Idempotence ==
    (PassCompleted /\ prevClean /\ ~ioFailed)
        => /\ Kinds(log) \cap Mutations = {}
           /\ ReplicaOf(fs) = ReplicaOf(fsAtStart)

\* C5 as stated: a file that is in source and replica with the same content
\* when the pass begins is not handed to copy_file and is not rewritten.
C5_SkipIdentical_AsStated ==
    \A rel \in RelPaths :
        (calls >= 1 /\ passOnline /\ IdenticalAtStart(rel))
            => /\ ~CopyInvoked(rel)
               /\ IsFile(fs, replica_path \o rel)
                     => fs[replica_path \o rel] = fsAtStart[replica_path \o rel]

\* C5, amended: a file that is in source and replica with the same content
\* when the pass begins, and whose two digests are computed without a read
\* error, is not handed to copy_file and is not rewritten, whatever the two
\* modification times.
C5_SkipIdentical ==
    \A rel \in RelPaths :
        (calls >= 1 /\ passOnline /\ IdenticalAtStart(rel) /\ ~ReadFailed(rel))
            => /\ ~CopyInvoked(rel)
               /\ IsFile(fs, replica_path \o rel)
                     => fs[replica_path \o rel] = fsAtStart[replica_path \o rel]

\* A completed pass that has enumerated a file whose replica copy has the same
\* content and another modification time, and has left that copy as it was.
C5_Witness ==
    /\ PassCompleted
    /\ \E rel \in source_structure :
          /\ IdenticalAtStart(rel)
          /\ fsAtStart[source_path \o rel].mtime
                # fsAtStart[replica_path \o rel].mtime
          /\ ~CopyInvoked(rel)
          /\ fs[replica_path \o rel] = fsAtStart[replica_path \o rel]

\* C6: whenever a digest of the source or the replica file fails,
\* files_are_identical answers false and the file is copied again.
C6_DigestFailure == \A rel \in RelPaths : ReadFailed(rel) => CopyInvoked(rel)

\* C7: a pass that finds the source root is never left by an exception.
C7_FaultIsolation == (calls >= 1 /\ passOnline) => outcome # "crashed"

\* C8: when main returns after accepting its arguments, synchronize() has been
\* called amount times and the program has slept interval seconds between
\* consecutive calls only.
C8_DriverSchedule ==
    (pc = "done" /\ outcome # "rejected")
        => /\ calls = amount
           /\ sleeps * interval
                 = (IF amount >= 1 THEN amount - 1 ELSE 0) * interval

\* C9: with a negative interval or amount nothing is constructed, nothing is
\* logged, synchronize() is never called and the file system stays as it was.
C9_Rejection ==
    (interval < 0 \/ amount < 0)
        => /\ ~constructed
           /\ calls = 0
           /\ log = <<>>
           /\ fs = fsAtStart
           /\ pc \in {"parse", "done"}
           /\ pc = "done" => outcome = "rejected"

\* main has returned on an amount below zero given with a valid interval.
C9_Witness ==
    pc = "done" /\ outcome = "rejected" /\ interval >= 0 /\ amount < 0

\* The part of C10 about the set returned: empty for a root that does not
\* exist; otherwise every entry of the tree except those beneath a directory
\* whose listing failed.
C10_ReturnedSet ==
    /\ \A p \in AbsPaths :
          ~Exists(fs, p) => get_directory_structure(fs, p, {}) = {}
    /\ pc = "sync" =>
          source_structure =
              {rel \in RelPaths :
                  /\ Exists(fsAtStart, source_path \o rel)
                  /\ \A n \in 0..(Len(rel) - 1) :
                        source_path \o SubSeq(rel, 1, n) \notin scanFailed}

\* C10: the enumerator returns that set and logs an error record when the
\* listing of a directory fails.
C10_Enumerator ==
    /\ C10_ReturnedSet
    /\ (pc = "sync" /\ scanFailed # {})
          => "Error scanning directory" \in Kinds(log)

\* The step is the call remove_path(replica_path \o rel) of the subtractive
\* loop.
RemoveCalled(rel) ==
    /\ pc = "sync" /\ todoAdd = {}
    /\ rel \in todoSub /\ rel \notin source_structure
    /\ todoSub' = todoSub \ {rel}

\* C11: remove_path deletes a file and logs REMOVED FILE, deletes a directory
\* with everything beneath it and logs REMOVED DIRECTORY, and on a path that
\* no longer exists changes nothing, raises nothing and logs one record.
C11_RemovePath ==
    [][\A rel \in RelPaths :
          LET p == replica_path \o rel
          IN  RemoveCalled(rel) =>
                /\ IsFile(fs, p) =>
                      /\ ~Exists(fs', p)
                      /\ log' = Append(log, Rec("REMOVED FILE", p))
                /\ IsDir(fs, p) =>
                      /\ \A q \in AbsPaths : IsPrefix(p, q) => ~Exists(fs', q)
                      /\ log' = Append(log, Rec("REMOVED DIRECTORY", p))
                /\ ~Exists(fs, p) =>
                      /\ fs' = fs
                      /\ outcome' # "crashed"
                      /\ Len(log') = Len(log) + 1]_vars

\* When the pass began rel was a directory in the source and a file in the
\* replica.
KindMismatchAtStart(rel) ==
    /\ IsDir(fsAtStart, source_path \o rel)
    /\ IsFile(fsAtStart, replica_path \o rel)

\* create_directory, copy_file or remove_path was applied to the replica path
\* of rel during this pass.
MutatorApplied(rel) ==
    \E i \in DOMAIN log :
        /\ log[i].kind \in Mutations \cup {"Error copying", "Error removing",
                                           "Error creating directory"}
        /\ log[i].path = replica_path \o rel

\* C12: a path that is a directory in the source and a file in the replica
\* when a pass begins is not created, copied over, removed or modified by the
\* pass: the replica entry stays the file it was.
C12_KindMismatchUntouched ==
    \A rel \in RelPaths :
        (calls >= 1 /\ KindMismatchAtStart(rel))
            => /\ fs[replica_path \o rel] = fsAtStart[replica_path \o rel]
               /\ ~MutatorApplied(rel)

\* The records of the additive loop and those of the subtractive loop.
AddRecords ==
    {"COPIED", "CREATED DIRECTORY", "Error copying", "Error creating directory"}
RemoveRecords == {"REMOVED FILE", "REMOVED DIRECTORY", "Error removing"}

\* C13: within one synchronize() call both snapshots are those of the trees
\* as they were before the pass changed anything, no removal is attempted
\* while a source item is still to be processed, and no record of a removal is
\* followed by a record of a copy or of a directory creation.
C13_PassOrdering ==
    /\ pc = "sync" =>
          /\ source_structure
                = get_directory_structure(fsAtStart, source_path, scanFailed)
          /\ replica_structure
                = get_directory_structure(fsAtStart, replica_path, scanFailed)
          /\ todoSub # replica_structure => todoAdd = {}
    /\ \A i, j \in DOMAIN log :
          (i < j /\ log[i].kind \in RemoveRecords)
              => log[j].kind \notin AddRecords

\* A completed pass that has copied or created, and later removed.
C13_Witness ==
    /\ PassCompleted
    /\ \E i, j \in DOMAIN log :
          /\ i < j
          /\ log[i].kind \in AddRecords
          /\ log[j].kind \in RemoveRecords

\* When the pass began, rel and the paths above it were not of one kind in the
\* source and of another in the replica.
PlainAtStart(rel) ==
    \A n \in 1..Len(rel) :
        LET s == fsAtStart[source_path \o SubSeq(rel, 1, n)]
            r == fsAtStart[replica_path \o SubSeq(rel, 1, n)]
        IN  s.kind = "none" \/ r.kind = "none" \/ s.kind = r.kind

\* C14: a pass that finds the source root absent changes nothing, logs no
\* mutation and returns to main, which goes on to run every scheduled pass;
\* the pass that finds the source again after it reconciles in full: when
\* none of its I/O is hit by a fault it leaves what synchronize() leaves when
\* started on that file system with nothing before it, and every path without
\* a kind mismatch ends up equal to the source.
C14_Recovery ==
    /\ (calls >= 1 /\ ~passOnline) =>
          /\ fs = fsAtStart
          /\ Kinds(log) \cap Mutations = {}
          /\ outcome # "crashed"
          /\ pc \in {"loop", "sleep", "done"}
          /\ pc = "done" => (outcome = "finished" /\ calls = amount)
    /\ (PassCompleted /\ calls >= 2 /\ ~prevOnline /\ ~ioFailed) =>
          /\ fs \in synchronize(fsAtStart)
          /\ \A rel \in RelPaths : PlainAtStart(rel) => Matches(fs, rel)

\* A pass that found the source again after an aborted one, and has copied a
\* file and removed an entry.
C14_Witness ==
    /\ PassCompleted /\ calls >= 2 /\ ~prevOnline /\ ~ioFailed
    /\ {"COPIED", "REMOVED FILE"} \subseteq Kinds(log)
    /\ fs # fsAtStart

\* C15: no step of a pass deletes a replica entry whose relative path is in
\* the source snapshot of that pass, and every removal the pass has logged is
\* of a path in the replica snapshot that is not in the source snapshot.
C15_KeepsSnapshotEntries ==
    [][/\ \A rel \in source_structure :
             (pc = "sync" /\ Exists(fs, replica_path \o rel))
                 => Exists(fs', replica_path \o rel)
       /\ \A i \in DOMAIN log' :
             log'[i].kind \in RemoveRecords
                 => RelativeTo(log'[i].path, replica_path)
                       \in replica_structure' \ source_structure']_vars

\* A completed pass that has removed a directory found only in the replica,
\* and has kept the directory above it, which is in its source snapshot.
C15_Witness ==
    /\ PassCompleted
    /\ \E rel \in source_structure, q \in replica_structure \ source_structure :
          /\ IsPrefix(rel, q)
          /\ IsDir(fsAtStart, replica_path \o q)
          /\ ~Exists(fs, replica_path \o q)
          /\ Exists(fs, replica_path \o rel)

\* C16: a pass creates or overwrites replica entries only at relative paths
\* of its source snapshot: an entry it has made or changed, such as the file
\* p/<basename of p> of a copy onto a directory p, is never at another path.
C16_WritesInSnapshot ==
    (calls >= 1 /\ passOnline) =>
        \A rel \in RelPaths :
            LET p == replica_path \o rel
            IN  (Exists(fs, p) /\ fs[p] # fsAtStart[p]) => rel \in source_structure

====
